---- MODULE Spec2Model ----
(***************************************************************************)
(* Rating-based photo selection and metadata export (vandyvision).         *)
(*                                                                         *)
(* select_images.py : collect files, read ratings with exiftool, normalise *)
(*                    them to 0..5 stars, nearest-rank percentile filter.  *)
(* demo.py          : generate_metadata, the driver that filters a folder, *)
(*                    reads each selected file and writes the CSV.         *)
(* parse_exif.py    : condense_metadata, augment_condensed_metadata.       *)
(* write_metadata.py: append_records_to_csv and the CSV file it rewrites.  *)
(*                                                                         *)
(* Strings (paths, string-valued tags) are sequences of code points, so    *)
(* that str.lower(), string comparison and int(str) are computed, not      *)
(* assumed.  Optional[int] is an integer or the marker None.               *)
(***************************************************************************)
EXTENDS Integers, Sequences, FiniteSets, TLC

VARIABLES
    phase,            \* "input" before a pure function is applied, "applied" after
    pctA, pctB,       \* two arguments of _stars_from_percent
    starsA, starsB,   \* its two results
    row,              \* one exiftool JSON row given to _normalize_stars
    norm,             \* the tuple _normalize_stars returns, with its outcome
    values, q,        \* arguments of percentile_nearest_rank
    pctl,             \* its outcome and result
    is_dir,           \* whether the folder argument is a directory
    folder,           \* the entries of the folder
    files,            \* the files collect_files returns for the folder
    meta,             \* per file: what exiftool prints for it
    percentile,       \* the percentile argument of the call
    include_unrated,  \* the include_unrated_in_result argument of the call
    result,           \* outcome and FilterResult of the latest filtering call
    tool_runs,        \* the runs of exiftool the latest filtering call made
    gpc,              \* position of generate_metadata
    image_paths,      \* generate_metadata: filter_results.selected
    image_metadata,   \* generate_metadata: the records appended so far
    failed_path,      \* generate_metadata: the file whose processing raised
    output_csv,       \* the new rows of the output file, or NotWritten
    rpc,              \* position in the processing of one file's metadata
    metadata,         \* the mapping read_all_metadata returned for the file
    condensed,        \* outcome and record of condense_metadata
    stat,             \* how Path(image_path).stat() ends
    augmented,        \* outcome and record of augment_condensed_metadata
    calls,            \* the calls of append_records_to_csv made so far
    csv_file,         \* the CSV file: the output of the latest call
    input_csv,        \* the file the latest call read
    records,          \* the records argument of the latest call
    add_missing_columns,  \* its add_missing_columns argument
    keep_existing_rows    \* its keep_existing_rows argument

vars == <<phase, pctA, pctB, starsA, starsB, row, norm, values, q, pctl,
          is_dir, folder, files, meta, percentile, include_unrated, result,
          tool_runs,
          gpc, image_paths, image_metadata, failed_path, output_csv,
          rpc, metadata, condensed, stat, augmented,
          calls, csv_file, input_csv, records, add_missing_columns,
          keep_existing_rows>>

pureVars == <<phase, pctA, pctB, starsA, starsB, row, norm, values, q, pctl>>
filterVars == <<is_dir, folder, files, meta, percentile, include_unrated, result,
                tool_runs>>
genVars == <<gpc, image_paths, image_metadata, failed_path, output_csv>>
recordVars == <<rpc, metadata, condensed, stat, augmented>>
csvVars == <<calls, csv_file, input_csv, records, add_missing_columns,
             keep_existing_rows>>

----------------------------------------------------------------------------
(* Bounds of the model *)

\* largest magnitude of a rating-percent argument tried
MaxPct == 104
\* longest list of star values given to percentile_nearest_rank
MaxLen == 5
\* largest denominator of the percentile q = num/den
MaxQDen == 4
\* most files in the scanned folder
MaxFiles == 2
\* most keys of the metadata mapping of a file
MaxMetaKeys == 2
\* most calls of append_records_to_csv in a row
MaxCalls == 2

----------------------------------------------------------------------------
(* Values *)

\* Python's None in an Optional[int]
None == -1000

Min2(a, b) == IF a <= b THEN a ELSE b
Max2(a, b) == IF a >= b THEN a ELSE b
Abs(a) == IF a >= 0 THEN a ELSE -a

\* A JSON value of an exiftool row, as dict.get returns it.
\*   absent : the key is not in the row (get returns None)
\*   null   : JSON null
\*   int    : a JSON integer, num
\*   float  : a JSON number with a fraction, num tenths
\*   str    : a JSON string, chars its code points
\*   struct : a JSON list or object
Val(kind, num, chars) == [kind |-> kind, num |-> num, chars |-> chars]
Absent == Val("absent", 0, <<>>)
Null == Val("null", 0, <<>>)
IntVal(n) == Val("int", n, <<>>)
FloatVal(tenths) == Val("float", tenths, <<>>)
StrVal(s) == Val("str", 0, s)
Struct == Val("struct", 0, <<>>)

IsDigit(c) == c \in 48..57

RECURSIVE DigitsValue(_)
DigitsValue(s) ==
    IF s = <<>> THEN 0
    ELSE 10 * DigitsValue(SubSeq(s, 1, Len(s) - 1)) + (s[Len(s)] - 48)

\* the strings int(str) accepts: an optional sign and one or more digits
IsIntLiteral(s) ==
    LET body == IF s # <<>> /\ s[1] \in {43, 45} THEN Tail(s) ELSE s
    IN  body # <<>> /\ \A i \in 1..Len(body) : IsDigit(body[i])

ParseInt(s) ==
    IF s[1] = 45 THEN -DigitsValue(Tail(s))
    ELSE IF s[1] = 43 THEN DigitsValue(Tail(s))
    ELSE DigitsValue(s)

\* int(float) truncates toward zero
TruncTenths(t) == IF t >= 0 THEN t \div 10 ELSE -((-t) \div 10)

\* the marker of a call that raised instead of returning an integer
Raises == -2000

\* dict.get(key): the value, None for a missing key and for JSON null
IsNone(val) == val.kind \in {"absent", "null"}

\* Python's int(val) of a value that is not None: the integer, or Raises
\* (ValueError for a string that is no integer literal, TypeError for a
\* list or a dict)
PyInt(val) ==
    CASE val.kind = "int" -> val.num
      [] val.kind = "float" -> TruncTenths(val.num)
      [] val.kind = "str" -> IF IsIntLiteral(val.chars) THEN ParseInt(val.chars) ELSE Raises
      [] OTHER -> Raises

\* a mutant of as_int: the exception of int(val) is not caught
as_int_uncaught(val) ==
    IF IsNone(val) THEN None ELSE PyInt(val)

\* _normalize_stars._as_int: None stays None, int(val), and None when int raises
as_int(val) ==
    IF IsNone(val) THEN None
    ELSE IF PyInt(val) = Raises THEN None
    ELSE PyInt(val)

----------------------------------------------------------------------------
(* _stars_from_percent *)

cuts == <<1, 25, 50, 75, 99>>
stars == <<1, 2, 3, 4, 5>>

\* a mutant of NearestCut: the last index among those of least distance
NearestCutLast(pct) ==
    CHOOSE i \in 1..Len(cuts) :
        /\ \A j \in 1..Len(cuts) : Abs(cuts[i] - pct) <= Abs(cuts[j] - pct)
        /\ \A j \in (i + 1)..Len(cuts) : Abs(cuts[j] - pct) > Abs(cuts[i] - pct)

\* min(range(len(cuts)), key=lambda i: abs(cuts[i] - pct)): the first index
\* among those of least distance (Python's min keeps the first minimum)
NearestCut(pct) ==
    CHOOSE i \in 1..Len(cuts) :
        /\ \A j \in 1..Len(cuts) : Abs(cuts[i] - pct) <= Abs(cuts[j] - pct)
        /\ \A j \in 1..(i - 1) : Abs(cuts[j] - pct) > Abs(cuts[i] - pct)

\* a mutant of stars_from_percent: the pct <= 0 test is lost
stars_from_percent_no_zero(pct) ==
    IF pct = None THEN None
    ELSE IF pct >= 99 THEN 5
    ELSE stars[NearestCut(pct)]

stars_from_percent(pct) ==
    IF pct = None THEN None
    ELSE IF pct <= 0 THEN 0
    ELSE IF pct >= 99 THEN 5
    ELSE stars[NearestCut(pct)]

----------------------------------------------------------------------------
(* _normalize_stars *)

\* a mutant of Clamp: the value is kept as it is
NoClamp(v) == v

\* max(0, min(5, v))
Clamp(v) == Max2(0, Min2(5, v))

\* the three rating tags of one exiftool row
Row(rating, msRating, msPercent) ==
    [Rating |-> rating, MSRating |-> msRating, MSPercent |-> msPercent]

\* what a call of _normalize_stars yields: the returned tuple, or raised
StarsTuple(s, xr, mr, mp) ==
    IF Raises \in {xr, mr, mp}
    THEN [raised |-> TRUE, stars |-> None, xmp_rating |-> None,
          ms_rating |-> None, ms_rating_percent |-> None]
    ELSE [raised |-> FALSE, stars |-> s, xmp_rating |-> xr,
          ms_rating |-> mr, ms_rating_percent |-> mp]

\* a mutant of normalize_stars: the percent is preferred to the explicit ratings
normalize_stars_percent_first(r) ==
    LET xr == as_int(r.Rating)
        mr == as_int(r.MSRating)
        mp == as_int(r.MSPercent)
        s  == IF mp # None THEN stars_from_percent(mp)
              ELSE IF xr # None THEN Clamp(xr)
              ELSE IF mr # None THEN Clamp(mr)
              ELSE None
    IN  StarsTuple(s, xr, mr, mp)

\* for v in (xr, mr): the first that is not None, clamped; else the percent
normalize_stars(r) ==
    LET xr == as_int(r.Rating)
        mr == as_int(r.MSRating)
        mp == as_int(r.MSPercent)
        s  == IF xr # None THEN Clamp(xr)
              ELSE IF mr # None THEN Clamp(mr)
              ELSE stars_from_percent(mp)
    IN  StarsTuple(s, xr, mr, mp)

----------------------------------------------------------------------------
(* percentile_nearest_rank *)

\* sorted(): insertion of the head into the sorted tail, by an integer key
RECURSIVE InsertAsc(_, _)
InsertAsc(x, s) ==
    IF s = <<>> THEN <<x>>
    ELSE IF x <= Head(s) THEN <<x>> \o s
    ELSE <<Head(s)>> \o InsertAsc(x, Tail(s))

\* a mutant of SortedInts: the list as it is given
Unsorted(s) == s

RECURSIVE SortedInts(_)
SortedInts(s) ==
    IF s = <<>> THEN <<>> ELSE InsertAsc(Head(s), SortedInts(Tail(s)))

\* Python's seq[i]: a negative index counts from the end
PyIndex(s, i) == IF i >= 0 THEN s[i + 1] ELSE s[Len(s) + i + 1]

\* q is the fraction qq[1] / qq[2]; min(1.0, max(0.0, q)) as a numerator
ClampQ(qq) == Min2(qq[2], Max2(0, qq[1]))

\* math.ceil(num * n / den) for num, n >= 0
CeilMul(num, den, n) == (num * n + den - 1) \div den

\* a mutant of NearestRank: the rank is not clamped to at least 1
NearestRankUnclamped(qq, n) == CeilMul(ClampQ(qq), qq[2], n)

\* a mutant of NearestRank: the product is rounded down
NearestRankFloor(qq, n) == Max2(1, (ClampQ(qq) * n) \div qq[2])

\* rank = max(1, math.ceil(q * n))
NearestRank(qq, n) == Max2(1, CeilMul(ClampQ(qq), qq[2], n))

\* the outcome of percentile_nearest_rank(vs, qq): ValueError on an empty list
percentile_nearest_rank(vs, qq) ==
    IF vs = <<>> THEN [raised |-> TRUE, value |-> None]
    ELSE [raised |-> FALSE,
          value |-> PyIndex(SortedInts(vs), NearestRank(qq, Len(vs)) - 1)]

----------------------------------------------------------------------------
(* Inputs of the pure functions *)

Pcts == (-MaxPct)..MaxPct

\* code points: "+" 43, "-" 45, "1" 49, "3" 51, "7" 55, "x" 120
RawVals ==
    {Absent, Null, Struct}
    \cup {IntVal(n) : n \in {-1, 0, 3, 5, 7, 13, 50, 100}}
    \cup {FloatVal(t) : t \in {-5, 29}}
    \cup {StrVal(s) : s \in {<<51>>, <<45, 49>>, <<43, 55>>, <<120>>, <<51, 120>>, <<>>}}

Rows == {Row(a, b, c) : a \in RawVals, b \in RawVals, c \in RawVals}

\* the star values of the lists tried
ListVals == {1, 2, 3, 5}

Lists == UNION {[1..n -> ListVals] : n \in 0..MaxLen}

\* q = num/den, from a little below 0 to a little above 1
Qs == {<<num, den>> : num \in -1..(MaxQDen + 1), den \in 1..MaxQDen}

NoTuple == StarsTuple(None, None, None, None)
NoValue == [raised |-> FALSE, value |-> None]

PureIdle ==
    /\ phase = "input"
    /\ pctA = 0 /\ pctB = 0 /\ starsA = None /\ starsB = None
    /\ row = Row(Absent, Absent, Absent) /\ norm = NoTuple
    /\ values = <<>> /\ q = <<0, 1>> /\ pctl = NoValue

----------------------------------------------------------------------------
(* Paths and their ordering *)

\* str(p).lower(): "A".."Z" (65..90) become "a".."z"
Lower(p) == [i \in 1..Len(p) |-> IF p[i] \in 65..90 THEN p[i] + 32 ELSE p[i]]

\* s <= t for Python strings: by code point, a proper prefix first
RECURSIVE StrLeq(_, _)
StrLeq(s, t) ==
    IF s = <<>> THEN TRUE
    ELSE IF t = <<>> THEN FALSE
    ELSE IF s[1] # t[1] THEN s[1] < t[1]
    ELSE StrLeq(Tail(s), Tail(t))

\* the sort key of filter_images_by_rating: lambda p: str(p).lower()
PathKey(p) == Lower(p)

KeyLeq(a, b) == StrLeq(PathKey(a), PathKey(b))

\* sorted(paths, key=...): stable, an element stays before a later equal one
RECURSIVE InsertPath(_, _)
InsertPath(x, s) ==
    IF s = <<>> THEN <<x>>
    ELSE IF KeyLeq(x, Head(s)) THEN <<x>> \o s
    ELSE <<Head(s)>> \o InsertPath(x, Tail(s))

RECURSIVE SortedPaths(_)
SortedPaths(s) ==
    IF s = <<>> THEN <<>> ELSE InsertPath(Head(s), SortedPaths(Tail(s)))

\* sorted(records, key=lambda r: str(r.path).lower())
RECURSIVE InsertRecord(_, _)
InsertRecord(x, s) ==
    IF s = <<>> THEN <<x>>
    ELSE IF KeyLeq(x.path, Head(s).path) THEN <<x>> \o s
    ELSE <<Head(s)>> \o InsertRecord(x, Tail(s))

RECURSIVE SortedRecords(_)
SortedRecords(s) ==
    IF s = <<>> THEN <<>> ELSE InsertRecord(Head(s), SortedRecords(Tail(s)))

Range(s) == {s[i] : i \in 1..Len(s)}

\* the orders in which the elements of a set can be enumerated
Orders(S) ==
    {s \in [1..Cardinality(S) -> S] : \A i, j \in 1..Cardinality(S) : s[i] = s[j] => i = j}

----------------------------------------------------------------------------
(* The scanned folder and the external tool *)

\* paths "a.jpg", "A.JPG", "b.png", "Ab.jpg", "B.PNG": two pairs differ only
\* in letter case
PathPool == <<(<<97, 46, 106, 112, 103>>), (<<65, 46, 74, 80, 71>>), (<<98, 46, 112, 110, 103>>),
              (<<65, 98, 46, 106, 112, 103>>), (<<66, 46, 80, 78, 71>>)>>

Paths == {PathPool[i] : i \in 1..Min2(MaxFiles, Len(PathPool))}

\* "z.jpg": a path that is not in the folder, which a row of exiftool may
\* name as its SourceFile all the same (records take path=Path(src) from
\* the row)
StrayPath == <<122, 46, 106, 112, 103>>

\* an entry of the folder: its path, and whether it is a regular file
Entry(p, isFile) == [path |-> p, is_file |-> isFile]

\* entries that are no photo: the file "n.txt" and the subfolder "d.jpg"
OtherEntries == {Entry(<<110, 46, 116, 120, 116>>, TRUE), Entry(<<100, 46, 106, 112, 103>>, FALSE)}

\* default_exts of filter_images_by_rating
default_exts ==
    {<<106, 112, 103>>, <<106, 112, 101, 103>>, <<116, 105, 102>>,
     <<116, 105, 102, 102>>, <<112, 110, 103>>, <<104, 101, 105, 99>>,
     <<99, 114, 50>>, <<110, 101, 102>>, <<97, 114, 119>>, <<100, 110, 103>>}

\* the index of the last "." (46) of a name, 0 if it has none
LastDot(p) ==
    IF \E i \in 1..Len(p) : p[i] = 46
    THEN CHOOSE i \in 1..Len(p) : p[i] = 46 /\ \A j \in (i + 1)..Len(p) : p[j] # 46
    ELSE 0

\* p.suffix.lower().lstrip("."): the lower-cased text after the last dot of
\* a name that neither starts nor ends with it
SuffixKey(p) ==
    IF LastDot(p) > 1 /\ LastDot(p) < Len(p)
    THEN LET t == SubSeq(p, LastDot(p) + 1, Len(p))
         IN  [i \in 1..Len(t) |-> IF t[i] \in 65..90 THEN t[i] + 32 ELSE t[i]]
    ELSE <<>>

\* a mutant of collect_files: the extension allow-list is not applied
collect_files_any_extension(isDir, entries) ==
    IF ~isDir THEN [status |-> "ValueError", files |-> {}]
    ELSE [status |-> "returned",
          files |-> {e.path : e \in {x \in entries : x.is_file}}]

\* a mutant of collect_files: a folder that is no directory lists nothing
collect_files_unchecked(isDir, entries) ==
    [status |-> "returned",
     files |-> {e.path : e \in {x \in entries :
                   isDir /\ x.is_file /\ SuffixKey(x.path) \in default_exts}}]

\* collect_files(folder, extensions=default_exts): ValueError for a folder
\* that is no directory, else the regular files with an allowed extension
collect_files(isDir, entries) ==
    IF ~isDir THEN [status |-> "ValueError", files |-> {}]
    ELSE [status |-> "returned",
          files |-> {e.path : e \in {x \in entries :
                        x.is_file /\ SuffixKey(x.path) \in default_exts}}]

EmptyRow == Row(Absent, Absent, Absent)

\* what exiftool prints for a file: a row naming it as SourceFile ("row"),
\* a row without SourceFile ("nosource"), or nothing ("norow")
ToolRow(kind, tags) == [kind |-> kind, tags |-> tags]
NoRow == ToolRow("norow", EmptyRow)

\* code point "x" is 120
FileRows ==
    { NoRow,
      ToolRow("nosource", Row(IntVal(5), Absent, Absent)),
      ToolRow("row", Row(StrVal(<<120>>), Struct, StrVal(<<>>))),
      ToolRow("row", Row(IntVal(7), Absent, IntVal(13))),
      ToolRow("row", Row(StrVal(<<120>>), Absent, IntVal(50))),
      ToolRow("row", Row(IntVal(-1), Absent, Absent)) }

\* the percentile arguments of the filtering calls: -1/2, 0, 1/2, 1, 3/2
CallQs == {<<num, 2>> : num \in -1..3}

\* how one run of exiftool ends: it prints its rows and exits 0, it exits
\* with a non-zero status, or it is not in PATH
ToolOutcomes == {"rows", "exit_nonzero", "not_found"}

----------------------------------------------------------------------------
(* read_ratings_with_exiftool *)

RatingRecord(p, t) ==
    [path |-> p, stars |-> t.stars, xmp_rating |-> t.xmp_rating,
     ms_rating |-> t.ms_rating, ms_rating_percent |-> t.ms_rating_percent]

\* the record of a file exiftool printed no usable row for
UnratedRecord(p) ==
    [path |-> p, stars |-> None, xmp_rating |-> None,
     ms_rating |-> None, ms_rating_percent |-> None]

\* the files whose row is kept, in the order `ord` the tool prints them:
\* a row without SourceFile is skipped
RowFiles(ord) == SelectSeq(ord, LAMBDA f : meta[f].kind = "row")

\* a mutant of MissingFiles: the files exiftool skipped are left out
MissingFilesDropped(ord) == <<>>

\* the scanned files no kept row names, in the order `ord` the folder lists
\* them
MissingFiles(ord) ==
    SelectSeq(ord, LAMBDA f : f \in files /\ meta[f].kind # "row")

\* the outcome of read_ratings_with_exiftool: the records, or the exception
read_ratings_with_exiftool(ord, tool) ==
    LET fs == RowFiles(ord)
        tuples == [i \in 1..Len(fs) |-> normalize_stars(meta[fs[i]].tags)]
    IN  IF tool = "not_found" THEN [status |-> "RuntimeError", records |-> <<>>]
        ELSE IF tool = "exit_nonzero"
        THEN [status |-> "CalledProcessError", records |-> <<>>]
        ELSE IF \E i \in 1..Len(fs) : tuples[i].raised
        THEN [status |-> "Exception", records |-> <<>>]
        ELSE [status |-> "returned",
              records |-> [i \in 1..Len(fs) |-> RatingRecord(fs[i], tuples[i])]]

\* the runs of exiftool a filtering call makes: none when the folder is no
\* directory, when no file is found, and when exiftool is not in PATH
ExiftoolRuns(tool) ==
    IF collect_files(is_dir, folder).status # "returned" THEN 0
    ELSE IF files = {} THEN 0
    ELSE IF tool = "not_found" THEN 0
    ELSE 1

----------------------------------------------------------------------------
(* filter_images_by_rating *)

FilterResult(status, selected, cutoff, rated, unrated, total) ==
    [status |-> status, selected |-> selected, cutoff_stars |-> cutoff,
     rated |-> rated, unrated |-> unrated,
     stats |-> [total_scanned |-> total, rated |-> Len(rated),
                unrated |-> Len(unrated), selected |-> Len(selected)]]

\* no call has been made
NoResult == FilterResult("none", <<>>, None, <<>>, <<>>, 0)

\* the call raised the exception `status`
Raised(status) == FilterResult(status, <<>>, None, <<>>, <<>>, 0)

\* a mutant of Passes: the files at or below the cutoff are selected
PassesUpTo(s, cutoff) == s # None /\ s <= cutoff

\* a mutant of Passes: only the files above the cutoff are selected
PassesStrictly(s, cutoff) == s # None /\ s > cutoff

\* r.stars is not None and r.stars >= cutoff
Passes(s, cutoff) == s # None /\ s >= cutoff

\* r.stars is not None
IsRated(r) == r.stars # None

\* sorted(set(selected), key=...): the set is iterated in an order that
\* depends on the hashes of the paths, and the stable sort keeps that order
\* among paths of equal key
SelectedOrders(sel) == {SortedPaths(it) : it \in Orders(Range(sel))}

\* the outcomes of filter_images_by_rating(folder, qq, inc) when the folder
\* lists its files and the tool prints its rows in the order `ord`
filter_images_by_rating(qq, inc, ord, tool) ==
    LET read == read_ratings_with_exiftool(ord, tool)
        missing == MissingFiles(ord)
        by_path == read.records
                   \o [i \in 1..Len(missing) |-> UnratedRecord(missing[i])]
        rated == SelectSeq(by_path, IsRated)
        unrated == SelectSeq(by_path, LAMBDA r : ~IsRated(r))
        cutoff == IF rated # <<>>
                  THEN percentile_nearest_rank(
                           [i \in 1..Len(rated) |-> rated[i].stars], qq).value
                  ELSE None
        passing == SelectSeq(rated, LAMBDA r : Passes(r.stars, cutoff))
        selected == (IF cutoff # None
                     THEN [i \in 1..Len(passing) |-> passing[i].path] ELSE <<>>)
                    \o (IF inc
                        THEN [i \in 1..Len(unrated) |-> unrated[i].path] ELSE <<>>)
        found == collect_files(is_dir, folder)
    IN  IF found.status # "returned" THEN {Raised(found.status)}
        ELSE IF files = {}
        THEN {FilterResult("returned", <<>>, None, <<>>, <<>>, 0)}
        ELSE IF read.status # "returned" THEN {Raised(read.status)}
        ELSE {FilterResult("returned", sel, cutoff, SortedRecords(rated),
                           SortedRecords(unrated), Cardinality(files))
              : sel \in SelectedOrders(selected)}

----------------------------------------------------------------------------
(* generate_metadata *)

\* parse_exif.read_all_metadata(path): with exiftool in PATH its output is
\* read by subprocess.check_output, which raises when exiftool exits with a
\* non-zero status; without exiftool the Pillow fallback returns what it has
read_all_metadata(tool) ==
    IF tool = "exit_nonzero" THEN "CalledProcessError" ELSE "returned"

\* a mutant of AugmentedRecord: a record that is of no path
AugmentedRecordOfNone(p) == [of |-> <<>>]

\* the record appended for the file p
AugmentedRecord(p) == [of |-> p]

NotWritten == [written |-> FALSE, rows |-> <<>>]
NoPath == <<>>

GenIdle ==
    /\ gpc = "idle" /\ image_paths = <<>> /\ image_metadata = <<>>
    /\ failed_path = NoPath /\ output_csv = NotWritten

FilterIdle ==
    /\ is_dir = TRUE /\ folder = {} /\ files = {} /\ meta = <<>>
    /\ tool_runs = 0
    /\ percentile = <<0, 1>> /\ include_unrated = TRUE
    /\ result = NoResult

----------------------------------------------------------------------------
(* Metadata values *)

\* A value of the metadata mapping that read_all_metadata returns, and of the
\* records built from it: None, a string (its code points), a number, a list
\* of values, or a dict from field names to values.
PyNone == [kind |-> "none"]
PyStr(s) == [kind |-> "str", chars |-> s]
PyNum(n) == [kind |-> "num", num |-> n]
PyList(items) == [kind |-> "list", items |-> items]
PyDict(fields) == [kind |-> "dict", fields |-> fields]

\* d.get(k) of a dict given as a function from its keys
Get(d, k) == IF k \in DOMAIN d THEN d[k] ELSE PyNone

\* bool(v)
Truthy(v) ==
    CASE v.kind = "none" -> FALSE
      [] v.kind = "str" -> v.chars # <<>>
      [] v.kind = "num" -> v.num # 0
      [] v.kind = "list" -> v.items # <<>>
      [] v.kind = "dict" -> DOMAIN v.fields # {}

\* what str.strip() removes: tab, newline, VT, FF, CR, space
IsSpace(c) == c \in {9, 10, 11, 12, 13, 32}

\* sep.join(strs) of a sequence of strings
RECURSIVE Join(_, _)
Join(strs, sep) ==
    IF strs = <<>> THEN <<>>
    ELSE IF Len(strs) = 1 THEN strs[1]
    ELSE strs[1] \o sep \o Join(Tail(strs), sep)

\* a call that returned `value`, and a call that raised `exception`
Ok(value) == [status |-> "returned", value |-> value]
Fail(exception) == [status |-> exception, value |-> PyNone]

----------------------------------------------------------------------------
(* condense_metadata *)

\* _first_present(meta, keys): the first meta[k] that exists and is not None
first_present(md, keys) ==
    LET hits == {i \in 1..Len(keys) :
                    keys[i] \in DOMAIN md /\ md[keys[i]].kind # "none"}
    IN  IF hits = {} THEN PyNone
        ELSE md[keys[CHOOSE i \in hits : \A j \in hits : i <= j]]

\* while s[-1] == " ": s = s[:len(s) - 1]; IndexError once s is empty
RECURSIVE StripTrailingSpaces(_)
StripTrailingSpaces(s) ==
    IF s = <<>> THEN Fail("IndexError")
    ELSE IF s[Len(s)] = 32 THEN StripTrailingSpaces(SubSeq(s, 1, Len(s) - 1))
    ELSE Ok(s)

\* s.replace("\n", " ")
NewlinesToSpaces(s) == [i \in 1..Len(s) |-> IF s[i] = 10 THEN 32 ELSE s[i]]

\* s.find("  ") != -1
HasDoubleSpace(s) == \E i \in 1..(Len(s) - 1) : s[i] = 32 /\ s[i + 1] = 32

\* s.replace("  ", " "): the non-overlapping pairs, from the left
RECURSIVE ReplaceDoubleSpaces(_)
ReplaceDoubleSpaces(s) ==
    IF Len(s) < 2 THEN s
    ELSE IF s[1] = 32 /\ s[2] = 32
    THEN <<32>> \o ReplaceDoubleSpaces(SubSeq(s, 3, Len(s)))
    ELSE <<s[1]>> \o ReplaceDoubleSpaces(Tail(s))

\* while s.find("  ") != -1: s = s.replace("  ", " ")
RECURSIVE CollapseSpaces(_)
CollapseSpaces(s) ==
    IF HasDoubleSpace(s) THEN CollapseSpaces(ReplaceDoubleSpaces(s)) ELSE s

\* the list `items` without its trailing " " items
RECURSIVE WithoutTrailingBlanks(_)
WithoutTrailingBlanks(items) ==
    IF items # <<>> /\ items[Len(items)] = PyStr(<<32>>)
    THEN WithoutTrailingBlanks(SubSeq(items, 1, Len(items) - 1))
    ELSE items

\* the clean-up of out["title"]: a string loses its trailing spaces, has its
\* newlines turned into spaces and its runs of spaces collapsed; a number
\* cannot be indexed, a list runs empty or has no replace(), a dict has no
\* key -1
CleanTitle(v) ==
    CASE v.kind = "none" -> Ok(PyNone)
      [] v.kind = "str" ->
            LET stripped == StripTrailingSpaces(v.chars)
            IN  IF stripped.status # "returned" THEN stripped
                ELSE Ok(PyStr(CollapseSpaces(NewlinesToSpaces(stripped.value))))
      [] v.kind = "num" -> Fail("TypeError")
      [] v.kind = "list" -> Fail(IF WithoutTrailingBlanks(v.items) = <<>>
                                 THEN "IndexError" ELSE "AttributeError")
      [] v.kind = "dict" -> Fail("KeyError")

\* a mutant of JoinPeople: the entries run together, without the " "
JoinPeopleUnspaced(v) ==
    IF v.kind # "list" THEN Ok(v)
    ELSE IF v.items = <<>> THEN Fail("IndexError")
    ELSE IF Len(v.items) = 1 THEN Ok(v.items[1])
    ELSE IF \A i \in 1..Len(v.items) : v.items[i].kind = "str"
    THEN Ok(PyStr(Join([i \in 1..Len(v.items) |-> v.items[i].chars], <<>>)))
    ELSE Fail("TypeError")

\* the join of out["people_agent_header_2"] when it is a list (of strings
\* or numbers): its first item, and " " and the next item for each further
\* one; [][0] is an IndexError, str + number a TypeError
JoinPeople(v) ==
    IF v.kind # "list" THEN Ok(v)
    ELSE IF v.items = <<>> THEN Fail("IndexError")
    ELSE IF Len(v.items) = 1 THEN Ok(v.items[1])
    ELSE IF \A i \in 1..Len(v.items) : v.items[i].kind = "str"
    THEN Ok(PyStr(Join([i \in 1..Len(v.items) |-> v.items[i].chars], <<32>>)))
    ELSE Fail("TypeError")

AllOfKind(items, kind) == \A i \in 1..Len(items) : items[i].kind = kind

\* _extract_nested(md, parent_keys, child_key)
extract_nested(md, parent_keys, child_key) ==
    LET parent == first_present(md, parent_keys)
        holds(x) == child_key \in DOMAIN x.fields
                    /\ x.fields[child_key].kind # "none"
        found == IF parent.kind = "list" /\ AllOfKind(parent.items, "dict")
                 THEN SelectSeq(parent.items, holds) ELSE <<>>
        vals == [i \in 1..Len(found) |-> found[i].fields[child_key]]
    IN  IF parent.kind = "none" THEN PyNone
        ELSE IF parent.kind = "list" /\ AllOfKind(parent.items, "str") THEN parent
        ELSE IF parent.kind = "dict" THEN Get(parent.fields, child_key)
        ELSE IF parent.kind = "list" /\ AllOfKind(parent.items, "dict")
        THEN (IF vals = <<>> THEN PyNone
              ELSE IF Len(vals) = 1 THEN vals[1] ELSE PyList(vals))
        ELSE parent

\* out["n_odd"]: a dict becomes its non-empty location fields joined by
\* ", ", or stays as it is when it has none; str.join of a field that is no
\* string is a TypeError
LocationText(loc) ==
    IF loc.kind # "dict" THEN Ok(loc)
    ELSE LET named == SelectSeq(<<"Sublocation", "City", "ProvinceState",
                                  "CountryName">>,
                                LAMBDA k : Truthy(Get(loc.fields, k)))
             pieces == [i \in 1..Len(named) |-> loc.fields[named[i]]]
         IN  IF pieces = <<>> THEN Ok(loc)
             ELSE IF AllOfKind(pieces, "str")
             THEN Ok(PyStr(Join([i \in 1..Len(pieces) |-> pieces[i].chars],
                                <<44, 32>>)))
             ELSE Fail("TypeError")

\* the candidate source keys of each condensed field, in order of preference
SourceKeys ==
    [title |-> <<"XMP-dc:Description", "IFD0:ImageDescription", "Description",
                 "ImageDescription">>,
     begin |-> <<"EXIF:CreateDate", "CreateDate", "XMP-xmp:CreateDate">>,
     people_agent_header_1 |-> <<"IPTC:By-line", "IFD0:Artist", "Creator",
                                 "Artist">>,
     people_agent_header_2 |-> <<"XMP-iptcExt:PersonInImage">>,
     subject_1_term |-> <<"XMP-plus:ImageSupplier">>,
     n_odd |-> <<"XMP-iptcCore:Location">>,
     n_abstract |-> <<"XMP-photoshop:Headline">>]

\* a mutant of CondensedKeys: the headline is not condensed
CondensedKeysNoAbstract ==
    {"title", "begin", "people_agent_header_1", "people_agent_header_2",
     "subject_1_term", "n_odd"}

\* the keys of a condensed record
CondensedKeys ==
    {"title", "begin", "people_agent_header_1", "people_agent_header_2",
     "subject_1_term", "n_odd", "n_abstract"}

\* condense_metadata(meta): the condensed record, or the exception that the
\* first failing statement raises
condense_metadata(md) ==
    LET title == CleanTitle(first_present(md, SourceKeys.title))
        people == JoinPeople(first_present(md, SourceKeys.people_agent_header_2))
        place == LocationText(first_present(md, SourceKeys.n_odd))
    IN  IF title.status # "returned" THEN Fail(title.status)
        ELSE IF people.status # "returned" THEN Fail(people.status)
        ELSE IF place.status # "returned" THEN Fail(place.status)
        ELSE Ok([k \in CondensedKeys |->
                   CASE k = "title" -> title.value
                     [] k = "begin" -> first_present(md, SourceKeys.begin)
                     [] k = "people_agent_header_1" -> first_present(md, SourceKeys.people_agent_header_1)
                     [] k = "people_agent_header_2" -> people.value
                     [] k = "subject_1_term" ->
                            extract_nested(md, SourceKeys.subject_1_term, "ImageSupplierName")
                     [] k = "n_odd" -> place.value
                     [] k = "n_abstract" -> first_present(md, SourceKeys.n_abstract)])

----------------------------------------------------------------------------
(* augment_condensed_metadata *)

\* a mutant of non_null: every value but None counts as present
non_null_not_none(x) == x.kind # "none"

\* _non_null(x): x counts as present
non_null(x) ==
    CASE x.kind = "none" -> FALSE
      [] x.kind = "str" -> \E i \in 1..Len(x.chars) : ~IsSpace(x.chars[i])
      [] x.kind = "list" -> x.items # <<>>
      [] x.kind = "dict" -> DOMAIN x.fields # {}
      [] x.kind \in {"num", "float"} -> TRUE

\* a float with three decimals, in thousandths
PyFloat(milli) == [kind |-> "float", milli |-> milli]

\* round(size_bytes / 1024 ** 2, 3) in thousandths: to the nearest, a tie to
\* the even thousandth
RoundedMB(size_bytes) ==
    LET whole == (size_bytes * 1000) \div 1048576
        rest == (size_bytes * 1000) % 1048576
    IN  IF rest > 524288 \/ (rest = 524288 /\ whole % 2 = 1)
        THEN whole + 1 ELSE whole

\* the texts augment_condensed_metadata writes, as code points
Texts ==
    [\* "MB"
     MB |->
         <<77, 66>>,
     \* "Yes"
     Yes |->
         <<89, 101, 115>>,
     \* "1"
     One |->
         <<49>>,
     \* "Item"
     Item |->
         <<73, 116, 101, 109>>,
     \* "This picture was held in VandyVision, the digi..."
     ProcessingNote |->
         <<84, 104, 105, 115, 32, 112, 105, 99, 116, 117, 114, 101, 32,
          119, 97, 115, 32, 104, 101, 108, 100, 32, 105, 110, 32, 86,
          97, 110, 100, 121, 86, 105, 115, 105, 111, 110, 44, 32, 116,
          104, 101, 32, 100, 105, 103, 105, 116, 97, 108, 32, 97, 115,
          115, 101, 116, 32, 109, 97, 110, 97, 103, 101, 109, 101, 110,
          116, 32, 115, 121, 115, 116, 101, 109, 32, 99, 97, 108, 108,
          101, 100, 32, 80, 104, 111, 116, 111, 83, 104, 101, 108, 116,
          101, 114, 46>>,
     \* "PhotoShelter https://www.photoshelter.com"
     Acqinfo |->
         <<80, 104, 111, 116, 111, 83, 104, 101, 108, 116, 101, 114, 32,
          104, 116, 116, 112, 115, 58, 47, 47, 119, 119, 119, 46, 112,
          104, 111, 116, 111, 115, 104, 101, 108, 116, 101, 114, 46,
          99, 111, 109>>,
     \* "creation"
     Creation |->
         <<99, 114, 101, 97, 116, 105, 111, 110>>,
     \* "single"
     Single |->
         <<115, 105, 110, 103, 108, 101>>,
     \* "creator"
     Creator |->
         <<99, 114, 101, 97, 116, 111, 114>>,
     \* "photographer"
     Photographer |->
         <<112, 104, 111, 116, 111, 103, 114, 97, 112, 104, 101, 114>>,
     \* "subject"
     Subject |->
         <<115, 117, 98, 106, 101, 99, 116>>,
     \* "associated name"
     AssociatedName |->
         <<97, 115, 115, 111, 99, 105, 97, 116, 101, 100, 32, 110, 97,
          109, 101>>,
     \* "location"
     Location |->
         <<108, 111, 99, 97, 116, 105, 111, 110>>,
     \* "topical"
     Topical |->
         <<116, 111, 112, 105, 99, 97, 108>>,
     \* "local sources"
     LocalSources |->
         <<108, 111, 99, 97, 108, 32, 115, 111, 117, 114, 99, 101, 115>>]

\* the fields added always
StaticFields ==
    [restrictions_flag |-> PyStr(Texts.Yes),
     processing_note |-> PyStr(Texts.ProcessingNote),
     portion |-> PyStr(Texts.One),
     type_2 |-> PyStr(Texts.Item),
     p_acqinfo |-> PyStr(Texts.Yes),
     n_acqinfo |-> PyStr(Texts.Acqinfo)]

\* the descriptor pairs, each with the condensed field that triggers it
Descriptors ==
    <<[on |-> "begin",
       fields |-> [dates_label |-> PyStr(Texts.Creation),
                   date_type |-> PyStr(Texts.Single)]],
      [on |-> "people_agent_header_1",
       fields |-> [people_agent_role_1 |-> PyStr(Texts.Creator),
                   people_agent_relator_1 |-> PyStr(Texts.Photographer)]],
      [on |-> "people_agent_header_2",
       fields |-> [people_agent_role_2 |-> PyStr(Texts.Subject),
                   people_agent_relator_2 |-> PyStr(Texts.AssociatedName)]],
      [on |-> "n_odd",
       fields |-> [p_odd |-> PyStr(Texts.Yes), l_odd |-> PyStr(Texts.Location)]],
      [on |-> "subject_1_term",
       fields |-> [subject_1_type |-> PyStr(Texts.Topical),
                   subject_1_source |-> PyStr(Texts.LocalSources)]]>>

\* how p.stat() ends: "returned" with the size of the file, or the OSError
\* it raises
Stat(status, size_bytes) == [status |-> status, st_size |-> size_bytes]

\* the fields of the descriptor pairs whose condensed field is non-null,
\* added to `out`
AddDescriptors(out) ==
    LET passing == {i \in 1..Len(Descriptors) :
                       non_null(Get(out, Descriptors[i].on))}
        added == UNION {DOMAIN Descriptors[i].fields : i \in passing}
        pair(k) == CHOOSE i \in passing : k \in DOMAIN Descriptors[i].fields
    IN  [k \in added |-> Descriptors[pair(k)].fields[k]] @@ out

\* augment_condensed_metadata(image_path, condensed, hierarchy) when
\* Path(image_path).stat() ends as `st`: only FileNotFoundError is caught
augment_condensed_metadata(record, hierarchy, st) ==
    IF st.status \notin {"returned", "FileNotFoundError"} THEN Fail(st.status)
    ELSE Ok(AddDescriptors(
                StaticFields
                @@ [hierarchy |-> hierarchy,
                    number |-> IF st.status = "returned"
                               THEN PyFloat(RoundedMB(st.st_size)) ELSE PyNone,
                    extent_type |-> PyStr(Texts.MB)]
                @@ record))

----------------------------------------------------------------------------
(* The metadata of one file *)

\* the empty dict
NoFields == [k \in {} |-> PyNone]

\* the strings "x" and "y"
TextX == PyStr(<<120>>)
TextY == PyStr(<<121>>)

\* the values the candidate keys of each condensed field are given:
\*   title    null, "", " ", "x \n", "x  y", 5
\*   begin    null, "2020", " "
\*   artist   null, "x", ""
\*   people   [], ["x"], ["x", "y"], ["x", "y", "x"], "x"
\*   supplier a struct with and without the name, a list of structs, a list
\*            of strings, []
\*   place    "x", a struct with two fields, with an empty field, with none,
\*            with a number
\*   headline null, "x"
MetaValues ==
    [title |-> {PyNone, PyStr(<<>>), PyStr(<<32>>), PyStr(<<120, 32, 10>>),
                PyStr(<<120, 32, 32, 121>>), PyNum(5)},
     begin |-> {PyNone, PyStr(<<50, 48, 50, 48>>), PyStr(<<32>>)},
     people_agent_header_1 |-> {PyNone, TextX, PyStr(<<>>)},
     people_agent_header_2 |->
         {PyList(<<>>), PyList(<<TextX>>), PyList(<<TextX, TextY>>),
          PyList(<<TextX, TextY, TextX>>), TextX},
     subject_1_term |->
         {PyDict([ImageSupplierName |-> TextX]), PyDict(NoFields),
          PyList(<<PyDict([ImageSupplierName |-> TextX]), PyDict(NoFields),
                   PyDict([ImageSupplierName |-> TextY])>>),
          PyList(<<TextX>>), PyList(<<>>)},
     n_odd |-> {TextX, PyDict([City |-> TextX, CountryName |-> TextY]),
                PyDict([City |-> PyStr(<<>>)]), PyDict(NoFields),
                PyDict([City |-> PyNum(5)])},
     n_abstract |-> {PyNone, TextX}]

\* the values of a candidate key
ValuesFor(k) ==
    MetaValues[CHOOSE f \in DOMAIN SourceKeys : k \in Range(SourceKeys[f])]

\* the metadata mappings with at most n of the candidate keys
RECURSIVE Metas(_)
Metas(n) ==
    IF n = 0 THEN {NoFields}
    ELSE LET fewer == Metas(n - 1)
             MetaKeys == UNION {Range(SourceKeys[f]) : f \in DOMAIN SourceKeys}
         IN  fewer \cup UNION {{(k :> v) @@ m : v \in ValuesFor(k)}
                               : <<k, m>> \in {x \in MetaKeys \X fewer :
                                                  x[1] \notin DOMAIN x[2]}}

\* how Path(image_path).stat() ends: a file of 0 bytes, of 65536 bytes
\* (0.0625 MB), of 1 MB; no such file; a path that runs through a file
StatOutcomes ==
    {Stat("returned", 0), Stat("returned", 65536), Stat("returned", 1048576),
     Stat("FileNotFoundError", 0), Stat("NotADirectoryError", 0)}

NotCalled == [status |-> "none", value |-> PyNone]

RecordIdle ==
    /\ rpc = "idle" /\ metadata = NoFields /\ condensed = NotCalled
    /\ stat = Stat("returned", 0) /\ augmented = NotCalled

----------------------------------------------------------------------------
(* write_metadata.py : _normalize_cell *)

\* the decimal digits of a natural number
RECURSIVE DigitsOf(_)
DigitsOf(n) ==
    IF n < 10 THEN <<48 + n>> ELSE DigitsOf(n \div 10) \o <<48 + (n % 10)>>

\* str(n) of an int
StrOfInt(n) == IF n < 0 THEN <<45>> \o DigitsOf(-n) ELSE DigitsOf(n)

\* isinstance(x, (str, int, float, bool, type(None)))
IsScalar(x) == x.kind \in {"none", "str", "num"}

\* the names of the struct fields, as text, in the order exiftool prints them
FieldNames == <<"Sublocation", "City", "ProvinceState", "CountryName",
                "ImageSupplierName">>
FieldNameText ==
    [Sublocation |-> <<83, 117, 98, 108, 111, 99, 97, 116, 105, 111, 110>>,
     City |-> <<67, 105, 116, 121>>,
     ProvinceState |-> <<80, 114, 111, 118, 105, 110, 99, 101, 83, 116, 97,
                         116, 101>>,
     CountryName |-> <<67, 111, 117, 110, 116, 114, 121, 78, 97, 109, 101>>,
     ImageSupplierName |-> <<73, 109, 97, 103, 101, 83, 117, 112, 112, 108,
                             105, 101, 114, 78, 97, 109, 101>>]

\* json.dumps(x, ensure_ascii=False) of values whose strings need no escape:
\* null, "chars", digits, [a, b], {"k": v}
RECURSIVE json_dumps(_)
json_dumps(x) ==
    CASE x.kind = "none" -> <<110, 117, 108, 108>>
      [] x.kind = "str" -> <<34>> \o x.chars \o <<34>>
      [] x.kind = "num" -> StrOfInt(x.num)
      [] x.kind = "list" ->
            <<91>> \o Join([i \in 1..Len(x.items) |-> json_dumps(x.items[i])],
                           <<44, 32>>) \o <<93>>
      [] x.kind = "dict" ->
            LET names == SelectSeq(FieldNames, LAMBDA k : k \in DOMAIN x.fields)
            IN  <<123>>
                \o Join([i \in 1..Len(names) |->
                            <<34>> \o FieldNameText[names[i]] \o <<34, 58, 32>>
                            \o json_dumps(x.fields[names[i]])],
                        <<44, 32>>)
                \o <<125>>

\* "" if x is None else str(x), of a scalar
ScalarText(x) ==
    CASE x.kind = "none" -> <<>>
      [] x.kind = "str" -> x.chars
      [] x.kind = "num" -> StrOfInt(x.num)

\* _normalize_cell(value): None is "", a list of scalars is joined by "; ",
\* another list and a dict are dumped as JSON, the rest is str(value)
normalize_cell(value) ==
    CASE value.kind = "none" -> <<>>
      [] value.kind = "list" ->
            IF \A i \in 1..Len(value.items) : IsScalar(value.items[i])
            THEN Join([i \in 1..Len(value.items) |-> ScalarText(value.items[i])],
                      <<59, 32>>)
            ELSE json_dumps(value)
      [] value.kind = "dict" -> json_dumps(value)
      [] value.kind \in {"str", "num"} -> ScalarText(value)

----------------------------------------------------------------------------
(* write_metadata.py : the CSV file, _read_existing_csv *)

\* A CSV file: whether it exists, whether it has a first line, the column
\* names of that line, and the lines after it, each a sequence of cells.
CsvFile(exists, header_line, headers, rows) ==
    [exists |-> exists, header_line |-> header_line, headers |-> headers,
     rows |-> rows]

MissingCsv == CsvFile(FALSE, FALSE, <<>>, <<>>)
EmptyCsv == CsvFile(TRUE, FALSE, <<>>, <<>>)

\* the last column of that name (csv.DictReader zips names and cells into a
\* dict)
ColumnOf(headers, h) ==
    CHOOSE i \in 1..Len(headers) :
        headers[i] = h /\ \A j \in (i + 1)..Len(headers) : headers[j] # h

\* the dict csv.DictReader makes of a line: a cell per column name, None for
\* the columns a short line has no cell for; the cells beyond the last
\* column go under the key None, which the writer ignores
ReadRow(headers, line) ==
    [h \in Range(headers) |->
        IF ColumnOf(headers, h) <= Len(line)
        THEN PyStr(line[ColumnOf(headers, h)]) ELSE PyNone]

\* _read_existing_csv(input_csv): rows and headers of a file that exists and
\* is not empty, no rows and no headers otherwise; csv.DictReader skips the
\* lines without a cell
read_existing_csv(file) ==
    IF file.exists /\ file.header_line
    THEN LET lines == SelectSeq(file.rows, LAMBDA line : line # <<>>)
         IN  [rows |-> [i \in 1..Len(lines) |-> ReadRow(file.headers, lines[i])],
              headers |-> file.headers]
    ELSE [rows |-> <<>>, headers |-> <<>>]

----------------------------------------------------------------------------
(* write_metadata.py : _compute_headers, append_records_to_csv *)

\* A record is a dict in insertion order: a sequence of <<key, value>> pairs
\* with distinct keys.
KeysOf(rec) == [i \in 1..Len(rec) |-> rec[i][1]]

HasKey(rec, k) == \E i \in 1..Len(rec) : rec[i][1] = k

ValueOf(rec, k) == rec[CHOOSE i \in 1..Len(rec) : rec[i][1] = k][2]

\* the keys of the records, in the order `for rec in records: for k in
\* rec.keys()` visits them
RECURSIVE AllKeys(_)
AllKeys(recs) ==
    IF recs = <<>> THEN <<>> ELSE KeysOf(Head(recs)) \o AllKeys(Tail(recs))

\* for k in keys: if k not in seen: headers.append(k); seen.add(k)
RECURSIVE AppendUnseen(_, _)
AppendUnseen(headers, keys) ==
    IF keys = <<>> THEN headers
    ELSE AppendUnseen(IF Head(keys) \in Range(headers) THEN headers
                      ELSE Append(headers, Head(keys)),
                      Tail(keys))

\* a mutant of compute_headers: the keys of the records become columns
\* whether or not add_missing_columns is set
compute_headers_always(existing_headers, new_records, add_missing) ==
    AppendUnseen(existing_headers, AllKeys(new_records))

\* a mutant of compute_headers: the new columns go in front
compute_headers_new_first(existing_headers, new_records, add_missing) ==
    IF add_missing
    THEN LET merged == AppendUnseen(existing_headers, AllKeys(new_records))
         IN  SubSeq(merged, Len(existing_headers) + 1, Len(merged))
             \o existing_headers
    ELSE existing_headers

\* _compute_headers(existing_headers, new_records, add_missing_columns)
compute_headers(existing_headers, new_records, add_missing) ==
    IF add_missing THEN AppendUnseen(existing_headers, AllKeys(new_records))
    ELSE existing_headers

\* the row of a record: "" under every header, then the normalised value of
\* each key that is a header; a key that is no header is skipped (it can be
\* appended to the headers only if add_missing_columns is set, and then
\* _compute_headers has made it a header already)
NewRow(headers, rec) ==
    [h \in Range(headers) |->
        IF HasKey(rec, h) THEN PyStr(normalize_cell(ValueOf(rec, h)))
        ELSE PyStr(<<>>)]

\* pad(row): {h: row.get(h, "") for h in headers}
Pad(headers, rowdict) ==
    [h \in Range(headers) |->
        IF h \in DOMAIN rowdict THEN rowdict[h] ELSE PyStr(<<>>)]

\* a mutant of FinalRows: the existing rows are never kept
FinalRowsNewOnly(existing_rows, new_rows, keep) == new_rows

\* final_rows = (existing_rows if keep_existing_rows else []) + new_rows
FinalRows(existing_rows, new_rows, keep) ==
    (IF keep THEN existing_rows ELSE <<>>) \o new_rows

\* the text csv.writer writes for a value of a row dict: "" for None
CellText(v) == IF v.kind = "none" THEN <<>> ELSE v.chars

\* a mutant of WriteRow: only the columns the row dict has a value for are
\* written
WriteRowSparse(headers, rowdict) ==
    LET held == SelectSeq(headers, LAMBDA h : h \in DOMAIN rowdict
                                              /\ rowdict[h].kind # "none")
    IN  [i \in 1..Len(held) |-> CellText(rowdict[held[i]])]

\* csv.DictWriter(f, fieldnames=headers, extrasaction="ignore").writerow: a
\* cell per header, rowdict.get(h, "")
WriteRow(headers, rowdict) ==
    [i \in 1..Len(headers) |->
        IF headers[i] \in DOMAIN rowdict THEN CellText(rowdict[headers[i]])
        ELSE <<>>]

\* append_records_to_csv(input_csv_path, output_csv_path, records,
\* add_missing_columns, keep_existing_rows): the file written
append_records_to_csv(file, recs, add_missing, keep) ==
    LET existing == read_existing_csv(file)
        computed == compute_headers(existing.headers, recs, add_missing)
        headers == IF computed = <<>> THEN AppendUnseen(<<>>, AllKeys(recs))
                   ELSE computed
        new_rows == [i \in 1..Len(recs) |-> NewRow(headers, recs[i])]
        existing_rows == IF add_missing
                         THEN [i \in 1..Len(existing.rows) |->
                                  Pad(headers, existing.rows[i])]
                         ELSE existing.rows
        final_rows == FinalRows(existing_rows, new_rows, keep)
    IN  CsvFile(TRUE, TRUE, headers,
                [i \in 1..Len(final_rows) |-> WriteRow(headers, final_rows[i])])

----------------------------------------------------------------------------
(* The CSV files and the records of the calls *)

\* the input files: none, an empty one, a header alone, two columns with a
\* full row "a","b" and a short row "c", a column no record has
InputFiles ==
    {MissingCsv, EmptyCsv,
     CsvFile(TRUE, TRUE, <<"title">>, <<>>),
     CsvFile(TRUE, TRUE, <<"begin", "title">>, <<(<<(<<97>>), (<<98>>)>>), (<<(<<99>>)>>)>>),
     CsvFile(TRUE, TRUE, <<"other">>, <<(<<(<<97>>)>>)>>)}

\* {"title": "x", "begin": None}
RecordTitle == <<(<<"title", TextX>>), (<<"begin", PyNone>>)>>
\* {"begin": "y", "n_odd": ["x", 5], "number": 7}
RecordPlace ==
    <<(<<"begin", TextY>>), (<<"n_odd", PyList(<<TextX, PyNum(5)>>)>>),
      (<<"number", PyNum(7)>>)>>
\* the records arguments of the calls; the last holds the record {}
RecordLists ==
    {<<>>, <<RecordTitle>>, <<RecordTitle, RecordPlace>>,
     <<RecordPlace, RecordTitle>>, <<(<<>>)>>}

CsvIdle ==
    /\ calls = 0 /\ csv_file = MissingCsv /\ input_csv = MissingCsv
    /\ records = <<>> /\ add_missing_columns = TRUE /\ keep_existing_rows = TRUE

----------------------------------------------------------------------------
(* Actions *)

\* one application of _stars_from_percent to each of the two arguments
ApplyStarsFromPercent ==
    /\ phase = "input"
    /\ phase' = "applied"
    /\ starsA' = stars_from_percent(pctA)
    /\ starsB' = stars_from_percent(pctB)
    /\ UNCHANGED <<pctA, pctB, row, norm, values, q, pctl>>
    /\ UNCHANGED <<filterVars, genVars>>
    /\ UNCHANGED <<recordVars, csvVars>>

\* one call of _normalize_stars
ApplyNormalizeStars ==
    /\ phase = "input"
    /\ phase' = "applied"
    /\ norm' = normalize_stars(row)
    /\ UNCHANGED <<pctA, pctB, starsA, starsB, row, values, q, pctl>>
    /\ UNCHANGED <<filterVars, genVars>>
    /\ UNCHANGED <<recordVars, csvVars>>

\* one call of percentile_nearest_rank
ApplyPercentile ==
    /\ phase = "input"
    /\ phase' = "applied"
    /\ pctl' = percentile_nearest_rank(values, q)
    /\ UNCHANGED <<pctA, pctB, starsA, starsB, row, norm, values, q>>
    /\ UNCHANGED <<filterVars, genVars>>
    /\ UNCHANGED <<recordVars, csvVars>>

\* how a call may go: the tool fails, or it prints its rows in some order
CallChoices ==
    {<<(<<>>), tool>> : tool \in ToolOutcomes \ {"rows"}}
    \cup {<<ord, "rows">> : ord \in Orders(DOMAIN meta)}

\* a call of filter_images_by_rating(folder, percentile, include_unrated)
CallFilter ==
    /\ gpc = "idle"
    /\ \E c \in CallChoices :
           /\ result' \in filter_images_by_rating(percentile, include_unrated, c[1], c[2])
           /\ tool_runs' = ExiftoolRuns(c[2])
    /\ UNCHANGED <<is_dir, folder, files, meta, percentile, include_unrated>>
    /\ UNCHANGED <<pureVars, genVars>>
    /\ UNCHANGED <<recordVars, csvVars>>

\* generate_metadata up to its loop, as demo.py runs it when it is loaded:
\* the filtering call, with unrated files included, and
\* image_paths = filter_results.selected
GenerateMetadataStart ==
    /\ gpc = "idle"
    /\ result = NoResult
    /\ \E c \in CallChoices :
           /\ result' \in filter_images_by_rating(percentile, TRUE, c[1], c[2])
           /\ tool_runs' = ExiftoolRuns(c[2])
    /\ include_unrated' = TRUE
    /\ gpc' = IF result'.status = "returned" THEN "loop" ELSE "raised"
    /\ image_paths' = result'.selected
    /\ image_metadata' = <<>>
    /\ UNCHANGED <<is_dir, folder, files, meta, percentile, failed_path, output_csv>>
    /\ UNCHANGED pureVars
    /\ UNCHANGED <<recordVars, csvVars>>

\* one iteration of the loop: read, condense and augment the next path; an
\* exception of the body leaves generate_metadata
ProcessFile ==
    /\ gpc = "loop"
    /\ Len(image_metadata) < Len(image_paths)
    /\ LET path == image_paths[Len(image_metadata) + 1]
       IN  \E tool \in ToolOutcomes :
               IF read_all_metadata(tool) = "returned"
               THEN /\ image_metadata' = Append(image_metadata, AugmentedRecord(path))
                    /\ UNCHANGED <<gpc, failed_path>>
               ELSE /\ gpc' = "raised"
                    /\ failed_path' = path
                    /\ UNCHANGED image_metadata
    /\ UNCHANGED <<image_paths, output_csv>>
    /\ UNCHANGED <<pureVars, filterVars>>
    /\ UNCHANGED <<recordVars, csvVars>>

\* after the loop: write_metadata.append_records_to_csv(..., image_metadata)
WriteCsv ==
    /\ gpc = "loop"
    /\ Len(image_metadata) = Len(image_paths)
    /\ output_csv' = [written |-> TRUE, rows |-> image_metadata]
    /\ gpc' = "done"
    /\ UNCHANGED <<image_paths, image_metadata, failed_path>>
    /\ UNCHANGED <<pureVars, filterVars>>
    /\ UNCHANGED <<recordVars, csvVars>>

\* condensed = condense_metadata(metadata)
CondenseMetadata ==
    /\ rpc = "read"
    /\ condensed' = condense_metadata(metadata)
    /\ rpc' = IF condensed'.status = "returned" THEN "condensed" ELSE "raised"
    /\ UNCHANGED <<metadata, stat, augmented>>
    /\ UNCHANGED <<pureVars, filterVars, genVars, csvVars>>

\* augment_condensed_metadata(path, condensed, hierarchy)
AugmentCondensed ==
    /\ rpc = "condensed"
    /\ \E st \in StatOutcomes, hierarchy \in {PyStr(Texts.One)} :
           /\ stat' = st
           /\ augmented' = augment_condensed_metadata(condensed.value, hierarchy, st)
    /\ rpc' = IF augmented'.status = "returned" THEN "augmented" ELSE "raised"
    /\ UNCHANGED <<metadata, condensed>>
    /\ UNCHANGED <<pureVars, filterVars, genVars, csvVars>>

\* a call of append_records_to_csv whose input is the file the call before
\* it wrote
AppendRecords ==
    /\ calls < MaxCalls
    /\ \E recs \in RecordLists, add_missing \in BOOLEAN, keep \in BOOLEAN :
           /\ csv_file' = append_records_to_csv(csv_file, recs, add_missing, keep)
           /\ records' = recs
           /\ add_missing_columns' = add_missing
           /\ keep_existing_rows' = keep
    /\ input_csv' = csv_file
    /\ calls' = calls + 1
    /\ UNCHANGED <<pureVars, filterVars, genVars, recordVars>>

----------------------------------------------------------------------------
(* Specifications *)

\* the folder, its files and their tags, and the arguments of the calls
Init ==
    /\ PureIdle
    /\ GenIdle
    /\ RecordIdle
    /\ CsvIdle
    /\ is_dir \in BOOLEAN
    /\ \E photos \in SUBSET Paths : folder = {Entry(p, TRUE) : p \in photos}
    /\ ~is_dir => folder = {}
    /\ files = collect_files(is_dir, folder).files
    /\ tool_runs = 0
    /\ meta \in [files -> FileRows]
    /\ percentile \in CallQs
    /\ include_unrated \in BOOLEAN
    /\ result = NoResult

Next ==
    \/ CallFilter
    \/ GenerateMetadataStart
    \/ ProcessFile
    \/ WriteCsv

Spec == Init /\ [][Next]_vars

\* the listing of the folder: photos among other files and subfolders, each
\* photo with a three-star rating or without a row
InitFolder ==
    /\ PureIdle
    /\ GenIdle
    /\ RecordIdle
    /\ CsvIdle
    /\ is_dir \in BOOLEAN
    /\ folder \in SUBSET ({Entry(p, TRUE) : p \in Paths} \cup OtherEntries)
    /\ ~is_dir => folder = {}
    /\ files = collect_files(is_dir, folder).files
    /\ tool_runs = 0
    /\ meta \in [files -> {NoRow, ToolRow("row", Row(IntVal(3), Absent, Absent))}]
    /\ percentile \in CallQs
    /\ include_unrated \in BOOLEAN
    /\ result = NoResult

NextFolder == CallFilter

SpecFolder == InitFolder /\ [][NextFolder]_vars

\* the response of exiftool: a row or none for each scanned file, and
\* possibly a row whose SourceFile is none of the scanned files
InitTool ==
    /\ PureIdle
    /\ GenIdle
    /\ RecordIdle
    /\ CsvIdle
    /\ is_dir = TRUE
    /\ \E photos \in SUBSET Paths : folder = {Entry(p, TRUE) : p \in photos}
    /\ files = collect_files(is_dir, folder).files
    /\ tool_runs = 0
    /\ \E stray \in SUBSET {StrayPath} :
           /\ meta \in [files \cup stray -> FileRows]
           /\ \A p \in stray : meta[p].kind = "row"
    /\ percentile \in CallQs
    /\ include_unrated \in BOOLEAN
    /\ result = NoResult

NextTool == CallFilter

SpecTool == InitTool /\ [][NextTool]_vars

\* _stars_from_percent on every pair of percents
InitPct ==
    /\ FilterIdle
    /\ GenIdle
    /\ RecordIdle
    /\ CsvIdle
    /\ phase = "input"
    /\ pctA \in Pcts /\ pctB \in Pcts
    /\ starsA = None /\ starsB = None
    /\ row = EmptyRow /\ norm = NoTuple
    /\ values = <<>> /\ q = <<0, 1>> /\ pctl = NoValue

NextPct == ApplyStarsFromPercent

SpecPct == InitPct /\ [][NextPct]_vars

\* _normalize_stars on every row of raw values
InitNorm ==
    /\ FilterIdle
    /\ GenIdle
    /\ RecordIdle
    /\ CsvIdle
    /\ phase = "input"
    /\ pctA = 0 /\ pctB = 0 /\ starsA = None /\ starsB = None
    /\ row \in Rows /\ norm = NoTuple
    /\ values = <<>> /\ q = <<0, 1>> /\ pctl = NoValue

NextNorm == ApplyNormalizeStars

SpecNorm == InitNorm /\ [][NextNorm]_vars

\* percentile_nearest_rank on every list and percentile
InitPercentile ==
    /\ FilterIdle
    /\ GenIdle
    /\ RecordIdle
    /\ CsvIdle
    /\ phase = "input"
    /\ pctA = 0 /\ pctB = 0 /\ starsA = None /\ starsB = None
    /\ row = EmptyRow /\ norm = NoTuple
    /\ values \in Lists /\ q \in Qs /\ pctl = NoValue

NextPercentile == ApplyPercentile

SpecPercentile == InitPercentile /\ [][NextPercentile]_vars

\* the metadata of one file, condensed and augmented
InitRecord ==
    /\ PureIdle
    /\ FilterIdle
    /\ GenIdle
    /\ rpc = "read"
    /\ metadata \in Metas(MaxMetaKeys)
    /\ condensed = NotCalled
    /\ stat = Stat("returned", 0)
    /\ augmented = NotCalled
    /\ CsvIdle

NextRecord ==
    \/ CondenseMetadata
    \/ AugmentCondensed

SpecRecord == InitRecord /\ [][NextRecord]_vars

\* the CSV file under repeated calls of append_records_to_csv
InitCsv ==
    /\ PureIdle
    /\ FilterIdle
    /\ GenIdle
    /\ RecordIdle
    /\ calls = 0
    /\ csv_file \in InputFiles
    /\ input_csv = MissingCsv
    /\ records = <<>>
    /\ add_missing_columns = TRUE
    /\ keep_existing_rows = TRUE

NextCsv == AppendRecords

SpecCsv == InitCsv /\ [][NextCsv]_vars

----------------------------------------------------------------------------
(* Properties *)

Returned == result.status = "returned"

PathsOf(recs) == {recs[i].path : i \in 1..Len(recs)}

\* C1: when at least one rated file exists, the selected files are exactly
\* the rated files whose stars are >= the cutoff, plus every unrated file if
\* and only if include_unrated_in_result is set.
C1_SelectedExactly ==
    (Returned /\ result.rated # <<>>) =>
        Range(result.selected) =
            {result.rated[i].path :
                i \in {j \in 1..Len(result.rated) :
                          result.rated[j].stars >= result.cutoff_stars}}
            \cup (IF include_unrated THEN PathsOf(result.unrated) ELSE {})

\* a call that kept one rated file and dropped another
C1_Witness ==
    /\ Returned
    /\ \E i, j \in 1..Len(result.rated) :
           /\ result.rated[i].stars < result.cutoff_stars
           /\ result.rated[i].path \notin Range(result.selected)
           /\ result.rated[j].path \in Range(result.selected)

\* the number of elements of vs that are < v, and that are <= v
CountBelow(vs, v) == Cardinality({i \in 1..Len(vs) : vs[i] < v})
CountUpTo(vs, v) == Cardinality({i \in 1..Len(vs) : vs[i] <= v})

\* the least integer rank >= 1 that is >= (qq[1] / qq[2]) * n
RankOf(qq, n) == CHOOSE k \in 1..n :
    /\ k * qq[2] >= qq[1] * n
    /\ \A j \in 1..(k - 1) : j * qq[2] < qq[1] * n

QInUnit == 0 <= q[1] /\ q[1] <= q[2]

\* C2: for a non-empty list of n values and q in [0,1] the result is the
\* element at 1-indexed rank max(1, ceil(q*n)) of the list sorted ascending.
C2_NearestRank ==
    (phase = "applied" /\ values # <<>> /\ QInUnit) =>
        /\ ~pctl.raised
        /\ CountBelow(values, pctl.value) < RankOf(q, Len(values))
        /\ RankOf(q, Len(values)) <= CountUpTo(values, pctl.value)

\* the scenario of the specification: [1,1,2,3,5] with q = 0.5 gives 2
C2_Witness ==
    /\ phase = "applied"
    /\ values = <<1, 1, 2, 3, 5>>
    /\ q = <<1, 2>>
    /\ pctl.value = 2

\* C3: for a non-empty list and q in [0,1] the result is an element of the
\* list; with q = 1 it is the maximum and with q = 0 the minimum.
C3_ElementMaxMin ==
    (phase = "applied" /\ values # <<>> /\ QInUnit) =>
        /\ pctl.value \in Range(values)
        /\ q[1] = q[2] => \A v \in Range(values) : v <= pctl.value
        /\ q[1] = 0 => \A v \in Range(values) : pctl.value <= v

\* q = 0 on a list whose minimum is not its maximum
C3_Witness ==
    /\ phase = "applied"
    /\ q[1] = 0
    /\ Len(values) >= 2
    /\ pctl.value = 1
    /\ 5 \in Range(values)

\* C4: the percent-to-stars mapping is monotonically non-decreasing, gives 0
\* for every percent <= 0 and 5 for every percent >= 99, and lies in 0..5.
C4_StarsMonotone ==
    phase = "applied" =>
        /\ pctA <= pctB => starsA <= starsB
        /\ pctA <= 0 => starsA = 0
        /\ pctA >= 99 => starsA = 5
        /\ starsA \in 0..5

\* percent 0 gives no star, the percent above it one
C4_Witness ==
    /\ phase = "applied"
    /\ pctA = 0 /\ starsA = 0
    /\ pctB = 1 /\ starsB = 1

\* a value int() turns into an integer
Usable(val) ==
    \/ val.kind \in {"int", "float"}
    \/ val.kind = "str" /\ IsIntLiteral(val.chars)

Into05(v) == IF v < 0 THEN 0 ELSE IF v > 5 THEN 5 ELSE v

\* C5: stars is the XMP rating clamped into 0..5 if that is a usable
\* integer, else the Microsoft rating clamped if that is one, and only
\* otherwise the stars of the Microsoft rating-percent.
C5_ExplicitPreferred ==
    phase = "applied" =>
        /\ Usable(row.Rating) => norm.stars = Into05(PyInt(row.Rating))
        /\ (~Usable(row.Rating) /\ Usable(row.MSRating)) =>
               norm.stars = Into05(PyInt(row.MSRating))
        /\ (~Usable(row.Rating) /\ ~Usable(row.MSRating) /\ Usable(row.MSPercent)) =>
               norm.stars = stars_from_percent(PyInt(row.MSPercent))
        /\ (~Usable(row.Rating) /\ ~Usable(row.MSRating) /\ ~Usable(row.MSPercent)) =>
               norm.stars = None

\* an explicit rating of 3 wins over a percent that would give 5 stars
C5_Witness ==
    /\ phase = "applied"
    /\ row.Rating = IntVal(3)
    /\ row.MSPercent = IntVal(100)
    /\ norm.stars = 3

StarsOk(s) == s = None \/ s \in 0..5

\* C6: in every RatingRecord and every FilterResult, stars is absent or in
\* 0..5, and cutoff_stars, when present, is in 0..5.
C6_StarsInRange ==
    /\ \A i \in 1..Len(result.rated) : StarsOk(result.rated[i].stars)
    /\ \A i \in 1..Len(result.unrated) : StarsOk(result.unrated[i].stars)
    /\ StarsOk(result.cutoff_stars)

\* a file rated 7 is recorded with 5 stars, a file rated -1 with 0
C6_Witness ==
    /\ Returned
    /\ \E i, j \in 1..Len(result.rated) :
           /\ result.rated[i].xmp_rating = 7 /\ result.rated[i].stars = 5
           /\ result.rated[j].xmp_rating = -1 /\ result.rated[j].stars = 0

\* a value that is present and that int() rejects
Malformed(val) ==
    \/ val.kind = "struct"
    \/ val.kind = "str" /\ ~IsIntLiteral(val.chars)

AsMissing(val) == IF Malformed(val) THEN Absent ELSE val

\* the row with every malformed value taken out
WithoutMalformed(r) == Row(AsMissing(r.Rating), AsMissing(r.MSRating), AsMissing(r.MSPercent))

NoUsableSource(r) == ~Usable(r.Rating) /\ ~Usable(r.MSRating) /\ ~Usable(r.MSPercent)

RecordOf(f) ==
    CHOOSE r \in Range(result.rated) \cup Range(result.unrated) : r.path = f

\* C7: a malformed rating value never raises and is treated exactly like a
\* missing one; a file whose rating sources are all absent or malformed has
\* stars absent and is in unrated, never in rated.
C7_MalformedAsMissing ==
    /\ result.status # "Exception"
    /\ Returned =>
        \A f \in files :
            meta[f].kind = "row" =>
                /\ RecordOf(f).stars = normalize_stars(WithoutMalformed(meta[f].tags)).stars
                /\ NoUsableSource(meta[f].tags) =>
                       /\ f \in PathsOf(result.unrated)
                       /\ f \notin PathsOf(result.rated)
                       /\ RecordOf(f).stars = None

\* one file with only malformed values, one whose malformed rating gives
\* way to its percent
C7_Witness ==
    /\ Returned
    /\ \E f, g \in files :
           /\ meta[f].kind = "row" /\ Malformed(meta[f].tags.Rating)
           /\ NoUsableSource(meta[f].tags)
           /\ f \in PathsOf(result.unrated)
           /\ Malformed(meta[g].tags.Rating)
           /\ g \in PathsOf(result.rated)
           /\ RecordOf(g).stars = 3

NoPathTwice(s) == \A i, j \in 1..Len(s) : s[i] = s[j] => i = j

OrderedByLowerCase(s) ==
    \A i \in 1..(Len(s) - 1) : StrLeq(Lower(s[i]), Lower(s[i + 1]))

\* C8: selected contains no path twice, is ordered by lower-cased path, and
\* two calls over the same files with the same ratings return the identical
\* selected sequence.
C8_SelectedDeterministic ==
    /\ [](NoPathTwice(result.selected) /\ OrderedByLowerCase(result.selected))
    /\ [][(Returned /\ result'.status = "returned"
            /\ include_unrated' = include_unrated)
          => result'.selected = result.selected]_vars

\* C9: files the tool yields no row for are unrated, not errors: a call in
\* which exiftool was run returns normally, with each such file in unrated
\* with stars absent and the remaining files rated.
C9_SkippedAreUnrated ==
    result.status \notin {"none", "ValueError", "RuntimeError"} =>
        /\ Returned
        /\ \A f \in files :
               IF meta[f].kind = "row"
               THEN f \in PathsOf(result.rated) \cup PathsOf(result.unrated)
               ELSE f \in PathsOf(result.unrated) /\ RecordOf(f).stars = None

\* C10: when the processing of one selected file fails, the remaining
\* selected files are still processed and their rows written.
C10_FailureDoesNotHalt ==
    (gpc = "raised" /\ failed_path # NoPath) =>
        \A p \in Range(image_paths) \ {failed_path} :
            /\ output_csv.written
            /\ AugmentedRecord(p) \in Range(output_csv.rows)

\* the name ends, whatever the letter case, with "." and an allowed
\* extension, and has text before the dot
HasAllowedExtension(p) ==
    \E ext \in default_exts :
        /\ Len(p) > Len(ext) + 1
        /\ p[Len(p) - Len(ext)] = 46
        /\ Lower(SubSeq(p, Len(p) - Len(ext) + 1, Len(p))) = ext

NoAllowedFile == \A e \in folder : ~(e.is_file /\ HasAllowedExtension(e.path))

\* C12: a folder containing no file with an allowed extension yields, with
\* no error and with no run of exiftool, the FilterResult with selected,
\* rated and unrated empty, the cutoff absent and every stats count 0.
C12_EmptyFolder ==
    (result # NoResult /\ is_dir /\ NoAllowedFile) =>
        /\ result = [status |-> "returned", selected |-> <<>>,
                     cutoff_stars |-> None, rated |-> <<>>, unrated |-> <<>>,
                     stats |-> [total_scanned |-> 0, rated |-> 0,
                                unrated |-> 0, selected |-> 0]]
        /\ tool_runs = 0

C12_Witness ==
    /\ is_dir /\ folder = OtherEntries
    /\ Returned /\ result.stats.total_scanned = 0 /\ tool_runs = 0

\* C13: a folder that does not exist or is no directory makes the call raise
\* ValueError, with no file listed, no run of exiftool and no FilterResult.
C13_NotADirectory ==
    (result # NoResult /\ ~is_dir) =>
        /\ result.status = "ValueError"
        /\ collect_files(is_dir, folder).files = {}
        /\ tool_runs = 0

C13_Witness == ~is_dir /\ result = Raised("ValueError") /\ tool_runs = 0

\* none of the candidate keys of the field is in the mapping with a value
NoSourceData(k) ==
    \A key \in Range(SourceKeys[k]) :
        key \in DOMAIN metadata => metadata[key] = PyNone

\* C11: condense_metadata never raises: for every metadata mapping it
\* returns a condensed record, in which a field without source data is None.
C11_CondenseNeverRaises ==
    condensed # NotCalled =>
        /\ condensed.status = "returned"
        /\ \A k \in DOMAIN condensed.value :
               NoSourceData(k) => condensed.value[k] = PyNone

SevenKeys ==
    {"title", "begin", "people_agent_header_1", "people_agent_header_2",
     "subject_1_term", "n_odd", "n_abstract"}

FixedKeys ==
    SevenKeys
    \cup {"hierarchy", "number", "extent_type"}
    \cup {"restrictions_flag", "processing_note", "portion", "type_2",
          "p_acqinfo", "n_acqinfo"}
    \cup {"dates_label", "date_type", "people_agent_role_1",
          "people_agent_relator_1", "people_agent_role_2",
          "people_agent_relator_2", "p_odd", "l_odd", "subject_1_type",
          "subject_1_source"}

\* C18: a condensed record has exactly the seven keys title, begin,
\* people_agent_header_1, people_agent_header_2, subject_1_term, n_odd and
\* n_abstract, and the keys of the augmented record all lie in the fixed set
\* of those, hierarchy, number, extent_type, the static fields and the five
\* descriptor pairs.
C18_FixedKeys ==
    /\ condensed.status = "returned" => DOMAIN condensed.value = SevenKeys
    /\ augmented.status = "returned" =>
           /\ SevenKeys \subseteq DOMAIN augmented.value
           /\ DOMAIN augmented.value \subseteq FixedKeys

C18_Witness ==
    /\ augmented.status = "returned"
    /\ DOMAIN metadata # {}
    /\ "dates_label" \in DOMAIN augmented.value
    /\ "p_odd" \notin DOMAIN augmented.value

\* present: not None, not an empty or whitespace-only string, not an empty
\* list or dict
Present(x) ==
    /\ x # PyNone
    /\ x.kind = "str" => \E i \in 1..Len(x.chars) :
                             x.chars[i] \notin {9, 10, 11, 12, 13, 32}
    /\ x.kind = "list" => Len(x.items) > 0
    /\ x.kind = "dict" => Cardinality(DOMAIN x.fields) > 0

\* the pair of descriptor fields is in the record, with its two texts
HasPair(rec, a, textA, b, textB) ==
    /\ a \in DOMAIN rec /\ rec[a] = PyStr(textA)
    /\ b \in DOMAIN rec /\ rec[b] = PyStr(textB)

LacksPair(rec, a, b) == a \notin DOMAIN rec /\ b \notin DOMAIN rec

PairIff(on, a, textA, b, textB) ==
    IF Present(condensed.value[on])
    THEN HasPair(augmented.value, a, textA, b, textB)
    ELSE LacksPair(augmented.value, a, b)

\* C19: the augmented record has (dates_label, date_type) exactly when begin
\* is present, the role and relator of each people header exactly when the
\* header is present, (p_odd, l_odd) exactly when n_odd is present, and
\* (subject_1_type, subject_1_source) exactly when subject_1_term is.
C19_PairsIffPresent ==
    augmented.status = "returned" =>
        /\ PairIff("begin", "dates_label", Texts.Creation, "date_type", Texts.Single)
        /\ PairIff("people_agent_header_1", "people_agent_role_1", Texts.Creator,
                   "people_agent_relator_1", Texts.Photographer)
        /\ PairIff("people_agent_header_2", "people_agent_role_2", Texts.Subject,
                   "people_agent_relator_2", Texts.AssociatedName)
        /\ PairIff("n_odd", "p_odd", Texts.Yes, "l_odd", Texts.Location)
        /\ PairIff("subject_1_term", "subject_1_type", Texts.Topical,
                   "subject_1_source", Texts.LocalSources)

\* a whitespace-only begin without its pair, beside a present n_odd with it
C19_Witness ==
    /\ augmented.status = "returned"
    /\ condensed.value["begin"] = PyStr(<<32>>)
    /\ "dates_label" \notin DOMAIN augmented.value
    /\ condensed.value["n_odd"].kind = "dict"
    /\ "l_odd" \in DOMAIN augmented.value

\* C20: when the file cannot be stat'd, whatever the reason,
\* augment_condensed_metadata does not raise: number is None, extent_type is
\* "MB" and the other augmented fields are there.
C20_StatFailureTolerated ==
    (augmented # NotCalled /\ stat.status # "returned") =>
        /\ augmented.status = "returned"
        /\ augmented.value["number"] = PyNone
        /\ augmented.value["extent_type"] = PyStr(Texts.MB)
        /\ SevenKeys \cup {"hierarchy"} \cup DOMAIN StaticFields
               \subseteq DOMAIN augmented.value

IsPrefix(s, t) == Len(s) <= Len(t) /\ SubSeq(t, 1, Len(s)) = s

\* the header list of a file as a reader finds it
HeadersOf(file) == IF file.exists /\ file.header_line THEN file.headers ELSE <<>>

\* C14: over calls that each read the file the call before wrote, with
\* keep_existing_rows set, the headers of every output begin with the
\* headers of its input, and a call repeated with the same records adds no
\* column.
C14_ColumnOrderStable ==
    /\ []((calls >= 1 /\ keep_existing_rows) =>
              IsPrefix(HeadersOf(input_csv), csv_file.headers))
    /\ [][(calls >= 1 /\ calls' = calls + 1
           /\ keep_existing_rows /\ keep_existing_rows'
           /\ records' = records
           /\ add_missing_columns' = add_missing_columns)
          => csv_file'.headers = csv_file.headers]_vars

\* a second call with records of three new keys, after which the columns are
\* those of its input and the rows are more
C14_Witness ==
    /\ calls = 2 /\ keep_existing_rows /\ add_missing_columns
    /\ records = <<RecordTitle, RecordPlace>>
    /\ Len(input_csv.headers) > 3
    /\ csv_file.headers = input_csv.headers
    /\ Len(csv_file.rows) > Len(input_csv.rows)

\* the position of the first occurrence of k in keys
FirstSeen(keys, k) == CHOOSE i \in 1..Len(keys) : keys[i] = k /\ \A j \in 1..(i - 1) : keys[j] # k

\* `added` holds each key of the records that is no existing header, once,
\* in the order in which the records first show them
NewKeysInFirstSeenOrder(added, existing) ==
    LET keys == AllKeys(records)
    IN  /\ Range(added) = Range(keys) \ Range(existing)
        /\ \A i, j \in 1..Len(added) :
               i < j => FirstSeen(keys, added[i]) < FirstSeen(keys, added[j])

TailFrom(s, n) == SubSeq(s, n + 1, Len(s))

\* the statement of C15 as the claim has it: the written headers are the
\* existing headers followed by the new record keys in first-seen order if
\* add_missing_columns is set, and the existing headers alone if it is not,
\* for any input file, a missing or empty one included.
C15_HeadersAsClaimed ==
    calls >= 1 =>
        /\ IsPrefix(HeadersOf(input_csv), csv_file.headers)
        /\ IF add_missing_columns
           THEN NewKeysInFirstSeenOrder(
                    TailFrom(csv_file.headers, Len(HeadersOf(input_csv))),
                    HeadersOf(input_csv))
           ELSE csv_file.headers = HeadersOf(input_csv)

\* C15: the written headers are the existing headers in their order,
\* followed by the record keys not among them in first-seen order; the new
\* keys are added if add_missing_columns is set, and also when the input
\* has no header at all (a missing or empty file), where the headers are
\* inferred from the records whatever the flag says.
C15_HeadersWritten ==
    calls >= 1 =>
        /\ IsPrefix(HeadersOf(input_csv), csv_file.headers)
        /\ IF add_missing_columns \/ HeadersOf(input_csv) = <<>>
           THEN NewKeysInFirstSeenOrder(
                    TailFrom(csv_file.headers, Len(HeadersOf(input_csv))),
                    HeadersOf(input_csv))
           ELSE csv_file.headers = HeadersOf(input_csv)

\* add_missing_columns is off, the input has headers, and the records have
\* a key outside them that does not become a column
C15_Witness ==
    /\ calls >= 1 /\ ~add_missing_columns
    /\ HeadersOf(input_csv) = <<"other">>
    /\ records = <<RecordTitle, RecordPlace>>
    /\ csv_file.headers = <<"other">>

\* the lines of the input that hold a cell: the rows a CSV reader returns
RowsOf(file) ==
    IF file.exists /\ file.header_line
    THEN SelectSeq(file.rows, LAMBDA line : line # <<>>) ELSE <<>>

\* a written line carries the cells of the input line under the same columns
SameCells(line, written) ==
    \A c \in 1..Len(line) : c <= Len(HeadersOf(input_csv)) => written[c] = line[c]

\* a written line carries the values of the record under its keys
CarriesRecord(rec, written) ==
    \A c \in 1..Len(csv_file.headers) :
        HasKey(rec, csv_file.headers[c]) =>
            written[c] = normalize_cell(ValueOf(rec, csv_file.headers[c]))

\* C16: with keep_existing_rows set the written rows are the rows of the
\* input in their order, then one row per record in the order of the
\* records; without it they are the rows of the records alone.
C16_RowsKeptThenAppended ==
    calls >= 1 =>
        LET kept == IF keep_existing_rows THEN RowsOf(input_csv) ELSE <<>>
        IN  /\ Len(csv_file.rows) = Len(kept) + Len(records)
            /\ \A i \in 1..Len(kept) : SameCells(kept[i], csv_file.rows[i])
            /\ \A j \in 1..Len(records) :
                   CarriesRecord(records[j], csv_file.rows[Len(kept) + j])

C16_Witness ==
    /\ calls >= 1 /\ keep_existing_rows
    /\ Len(RowsOf(input_csv)) = 2 /\ records = <<RecordPlace, RecordTitle>>
    /\ Len(csv_file.rows) = 4
    /\ csv_file.rows[3][1] = <<121>>

\* C17: every written row, kept or new, has a cell for every header of the
\* written header list, with add_missing_columns set or not; a column that
\* the record lacks or holds None for, and a column a kept row had no cell
\* for, is written as the empty string.
C17_EveryRowHasEveryHeader ==
    calls >= 1 =>
        LET kept == IF keep_existing_rows THEN RowsOf(input_csv) ELSE <<>>
        IN  /\ \A i \in 1..Len(csv_file.rows) :
                   Len(csv_file.rows[i]) = Len(csv_file.headers)
            /\ \A i \in 1..Len(kept), c \in 1..Len(csv_file.headers) :
                   (i <= Len(csv_file.rows) /\ c <= Len(csv_file.rows[i])
                    /\ c > Len(kept[i])) => csv_file.rows[i][c] = <<>>
            /\ \A j \in 1..Len(records), c \in 1..Len(csv_file.headers) :
                   (Len(kept) + j <= Len(csv_file.rows)
                    /\ c <= Len(csv_file.rows[Len(kept) + j])
                    /\ (~HasKey(records[j], csv_file.headers[c])
                        \/ ValueOf(records[j], csv_file.headers[c]) = PyNone))
                   => csv_file.rows[Len(kept) + j][c] = <<>>

\* add_missing_columns is off: a kept short row and a record without the
\* column are written with an empty cell
C17_Witness ==
    /\ calls >= 1 /\ ~add_missing_columns /\ keep_existing_rows
    /\ input_csv.rows = <<(<<(<<97>>), (<<98>>)>>), (<<(<<99>>)>>)>>
    /\ records = <<RecordTitle>>
    /\ csv_file.rows = <<(<<(<<97>>), (<<98>>)>>), (<<(<<99>>), (<<>>)>>),
                         (<<(<<>>), (<<120>>)>>)>>

\* the star value k is that of the cut nearest to p, the lower cut on a tie:
\* no cut is nearer to p than the k-th, and every cut before it is farther
NearestLowest(p, k) ==
    LET cut == <<1, 25, 50, 75, 99>>
        far(i) == IF cut[i] >= p THEN cut[i] - p ELSE p - cut[i]
    IN  /\ k \in 1..5
        /\ \A i \in 1..5 : far(k) <= far(i)
        /\ \A i \in 1..5 : i < k => far(i) > far(k)

\* C21: for every percent p with 0 < p < 99, _stars_from_percent returns the
\* star value of the cut in [1, 25, 50, 75, 99] nearest to p, and the lower
\* cut on an exact tie: 13 gives 1 star and 87 gives 4.
C21_NearestCutLowestOnTie ==
    phase = "applied" =>
        /\ (0 < pctA /\ pctA < 99) => NearestLowest(pctA, starsA)
        /\ pctA = 13 => starsA = 1
        /\ pctA = 87 => starsA = 4

\* the two ties of the claim
C21_Witness ==
    /\ phase = "applied"
    /\ pctA = 13 /\ starsA = 1
    /\ pctB = 87 /\ starsB = 4

\* the title that condense_metadata found in the metadata
FoundTitle == first_present(metadata, SourceKeys.title)

\* C22: for every string title found by condense_metadata, the title of the
\* condensed record does not end with a space, contains no newline and
\* contains no two consecutive spaces.
C22_TitleCleaned ==
    (condensed.status = "returned" /\ FoundTitle.kind = "str") =>
        LET title == condensed.value["title"]
        IN  /\ title.kind = "str"
            /\ title.chars # <<>> => title.chars[Len(title.chars)] # 32
            /\ \A i \in 1..Len(title.chars) : title.chars[i] # 10
            /\ \A i \in 1..(Len(title.chars) - 1) :
                   ~(title.chars[i] = 32 /\ title.chars[i + 1] = 32)

\* the people value that condense_metadata found in the metadata
FoundPeople == first_present(metadata, SourceKeys.people_agent_header_2)

\* the entries of a list of strings in their order, one space between
\* neighbours: the last entry after the others and a space
RECURSIVE SpaceSeparated(_)
SpaceSeparated(items) ==
    IF Len(items) = 1 THEN items[1].chars
    ELSE SpaceSeparated(SubSeq(items, 1, Len(items) - 1))
             \o <<32>> \o items[Len(items)].chars

\* C23: when the people source value is a list of strings, condense_metadata
\* sets people_agent_header_2 to the entries in their original order joined
\* by single spaces (a one-entry list yields that entry), and the augmented
\* record carries this value unchanged.
C23_PeopleJoined ==
    (/\ FoundPeople.kind = "list"
     /\ FoundPeople.items # <<>>
     /\ AllOfKind(FoundPeople.items, "str")) =>
        LET joined == PyStr(SpaceSeparated(FoundPeople.items))
        IN  /\ condensed.status = "returned" =>
                   condensed.value["people_agent_header_2"] = joined
            /\ augmented.status = "returned" =>
                   augmented.value["people_agent_header_2"] = joined

\* three people, joined to "x y x" in the augmented record
C23_Witness ==
    /\ FoundPeople = PyList(<<TextX, TextY, TextX>>)
    /\ augmented.status = "returned"
    /\ augmented.value["people_agent_header_2"] = PyStr(<<120, 32, 121, 32, 120>>)

\* the star values of the rated files of the result
RatedStars == {result.rated[i].stars : i \in 1..Len(result.rated)}

\* C24: whenever at least one rated file exists, for every percentile the
\* cutoff is not absent, every file holding the maximum star value is
\* selected, and so at least one rated file is selected.
C24_TopRatedSelected ==
    (Returned /\ result.rated # <<>>) =>
        /\ result.cutoff_stars # None
        /\ \A i \in 1..Len(result.rated) :
               (\A s \in RatedStars : s <= result.rated[i].stars) =>
                   result.rated[i].path \in Range(result.selected)
        /\ PathsOf(result.rated) \cap Range(result.selected) # {}

\* two files of different stars under a percentile of 1 or more: the one of
\* more stars is selected and the other is not
C24_Witness ==
    /\ Returned
    /\ percentile[1] >= percentile[2]
    /\ \E i, j \in 1..Len(result.rated) :
           /\ result.rated[i].stars < result.rated[j].stars
           /\ Range(result.selected) = {result.rated[j].path}

\* the fraction a is at most the fraction b (both denominators positive)
QLeq(a, b) == a[1] * b[2] <= b[1] * a[2]

\* the cutoff of the rated stars `values` under the percentile qq, and the
\* rated files that a cutoff selects
CutoffAt(qq) == percentile_nearest_rank(values, qq).value
SelectedAt(cutoff) == {i \in 1..Len(values) : Passes(values[i], cutoff)}

\* the percentiles of the finest grid of Qs (with quarters: two percentiles
\* of Qs of different value have one of these between them, or one of them
\* has the value of one of these)
GridQs == {qq \in Qs : qq[2] = MaxQDen}

\* C25: selection is monotone in the percentile: for the same rated stars and
\* q1 <= q2 the cutoff of q1 is at most that of q2 and the rated files
\* selected with q2 are among those selected with q1; a q below 0 behaves as
\* 0 and a q above 1 as 1.  (q is compared with every grid percentile on
\* either side of it.)
C25_MonotoneInPercentile ==
    (phase = "applied" /\ values # <<>>) =>
        /\ \A q2 \in GridQs :
               LET cutoff2 == CutoffAt(q2)
               IN  /\ QLeq(q, q2) =>
                          /\ pctl.value <= cutoff2
                          /\ SelectedAt(cutoff2) \subseteq SelectedAt(pctl.value)
                   /\ QLeq(q2, q) =>
                          /\ cutoff2 <= pctl.value
                          /\ SelectedAt(pctl.value) \subseteq SelectedAt(cutoff2)
        /\ q[1] < 0 => pctl.value = CutoffAt(<<0, 1>>)
        /\ q[1] > q[2] => pctl.value = CutoffAt(<<1, 1>>)

\* a percentile below 0 that selects every file, where a larger percentile
\* selects some and not all of them
C25_Witness ==
    /\ phase = "applied"
    /\ q[1] < 0
    /\ SelectedAt(pctl.value) = 1..Len(values)
    /\ \E q2 \in Qs :
           /\ SelectedAt(CutoffAt(q2)) # {}
           /\ SelectedAt(CutoffAt(q2)) # 1..Len(values)

\* C26: with percentile 0 and include_unrated_in_result set, as the
\* top-level driver calls it, filter_images_by_rating selects every scanned
\* file: the cutoff is the least rated star value, every rated file passes
\* and every unrated file is added.
C26_PercentileZeroSelectsAll ==
    (Returned /\ percentile[1] = 0 /\ include_unrated) =>
        /\ files \subseteq Range(result.selected)
        /\ PathsOf(result.rated) \cup PathsOf(result.unrated)
               \subseteq Range(result.selected)
        /\ result.rated # <<>> =>
               /\ result.cutoff_stars \in RatedStars
               /\ \A s \in RatedStars : result.cutoff_stars <= s

\* the driver's call on a folder of a file of more stars, a file of fewer
\* stars and no other: both are selected
C26_Witness ==
    /\ gpc = "loop"
    /\ percentile[1] = 0
    /\ \E i, j \in 1..Len(result.rated) :
           result.rated[i].stars < result.rated[j].stars
    /\ Len(image_paths) = 2

\* the records of rated and unrated that are of the file f
RecordsOf(f) ==
    Cardinality({i \in 1..Len(result.rated) : result.rated[i].path = f})
    + Cardinality({i \in 1..Len(result.unrated) : result.unrated[i].path = f})

\* C27: in every FilterResult, whatever the external tool responds, every
\* scanned file is in exactly one of rated and unrated, stats.rated +
\* stats.unrated = stats.total_scanned, stats.selected is the length of
\* selected and at most stats.total_scanned, and every selected path is a
\* scanned file.
C27_CountsConsistent ==
    Returned =>
        /\ \A f \in files : RecordsOf(f) = 1
        /\ result.stats.total_scanned = Cardinality(files)
        /\ result.stats.rated = Len(result.rated)
        /\ result.stats.unrated = Len(result.unrated)
        /\ result.stats.rated + result.stats.unrated = result.stats.total_scanned
        /\ result.stats.selected = Len(result.selected)
        /\ result.stats.selected <= result.stats.total_scanned
        /\ Range(result.selected) \subseteq files

\* a step that writes the output file: nothing was written before, every
\* selected path has been read, condensed and augmented, and the rows
\* written are those of the paths of FilterResult.selected, in that order
WritesAllSelected ==
    /\ ~output_csv.written
    /\ gpc = "loop" /\ gpc' = "done"
    /\ image_paths = result.selected
    /\ Len(image_metadata) = Len(result.selected)
    /\ output_csv'.written
    /\ Len(output_csv'.rows) = Len(result.selected)
    /\ \A i \in 1..Len(result.selected) :
           output_csv'.rows[i].of = result.selected[i]

\* C28: generate_metadata writes the output CSV exactly once, and only after
\* every selected file has been read, condensed and augmented: the rows are
\* one per path of FilterResult.selected in that order; a run that ends by
\* an exception before the write leaves the output file untouched, and a run
\* that has written the file does nothing more.
C28_WrittenOnceAfterAll ==
    /\ [][output_csv' # output_csv => WritesAllSelected]_vars
    /\ [][gpc = "done" => (gpc' = "done" /\ output_csv' = output_csv)]_vars
    /\ [](gpc = "done" <=> output_csv.written)
    /\ [](gpc = "raised" => output_csv = NotWritten)

\* a run that wrote the rows of two selected paths
C28_Witness ==
    /\ gpc = "done"
    /\ Len(result.selected) = 2
    /\ output_csv.written
    /\ Len(output_csv.rows) = 2
    /\ \A i \in 1..2 : output_csv.rows[i].of = result.selected[i]

====
